---- MODULE Spec2Model ----
(***************************************************************************)
(* Doctor-appointment schedule viewer: the appointment service (day and    *)
(* range filters, overlap grouping), the day timeline, the week grid and   *)
(* the ScheduleView/useAppointments plumbing that feeds them.              *)
(*                                                                         *)
(* Time is counted in minutes.  A Date is the instant it denotes, in       *)
(* minutes since local midnight of Monday 2024-10-14 (day 0).  An ISO      *)
(* string of an appointment is kept as the instant `new Date(string)`      *)
(* yields.  The local calendar has one daylight-saving change, described   *)
(* by the variable tz.                                                     *)
(***************************************************************************)
EXTENDS Integers, Sequences, FiniteSets, TLC

VARIABLES
    tz,                 \* the runtime's time zone: [shift, day]
    MOCK_APPOINTMENTS,  \* the appointment store (array order)
    call,               \* the last service call: its name and arguments
    result,             \* what that call returned
    date,               \* DayView property: the displayed day
    weekStartDate,      \* WeekView property: Monday of the displayed week
    appointments,       \* the appointment list of the hook, handed to the views
    timeSlots,          \* useMemo(generateTimeSlots) of the rendered view
    weekDays,           \* useMemo(getWeekDays) of the week view
    slotAppointments,   \* what the rendered view shows per slot (per day and slot)
    cards,              \* the AppointmentCard rendered for each shown appointment
    selectedDoctorId,   \* SchedulePage state
    selectedDate,       \* SchedulePage state
    view,               \* SchedulePage state: "day" or "week"
    loading,            \* useAppointments state
    error,              \* useAppointments state
    deps                \* dependency array of the hook's last effect run

serviceVars == <<MOCK_APPOINTMENTS, call, result>>
viewVars == <<date, weekStartDate, timeSlots, weekDays, slotAppointments, cards>>
pageVars == <<selectedDoctorId, selectedDate, view>>
hookVars == <<appointments, loading, error, deps>>

vars == <<tz, serviceVars, viewVars, pageVars, hookVars>>

\* Values of the variables a specification does not use.
NoCall == [op |-> "none"]
ServiceIdle == MOCK_APPOINTMENTS = <<>> /\ call = NoCall /\ result = <<>>
ViewIdle ==
    /\ date = 0 /\ weekStartDate = 0
    /\ timeSlots = <<>> /\ weekDays = <<>> /\ slotAppointments = <<>>
    /\ cards = <<>>
PageIdle == selectedDoctorId = "" /\ selectedDate = 0 /\ view = "day"
HookIdle == appointments = <<>> /\ loading = FALSE /\ error = "null" /\ deps = <<>>

----------------------------------------------------------------------------
(* Bounds of the model.                                                    *)

\* Longest appointment list (store, view property).
MaxAppts == 2

\* Longest list handed to getOverlappingAppointments.
MaxGroupInput == 3
MaxCalls == 2

----------------------------------------------------------------------------
(* The local calendar of the JavaScript runtime.                           *)

DayMinutes == 24 * 60

\* Time zones of the model: no daylight saving; clocks set back one hour on
\* Sunday 2024-10-27 (day 13, a 25-hour day); clocks set forward one hour on
\* that day (a 23-hour day).
TimeZones ==
    { [shift |-> 0, day |-> 13], [shift |-> 60, day |-> 13],
      [shift |-> 0 - 60, day |-> 13] }

\* Instant of local midnight of calendar day d.
DayStart(d) == d * DayMinutes + (IF d > tz.day THEN tz.shift ELSE 0)

\* Calendar day (index) of an instant.
DayOf(t) ==
    IF t < DayStart(tz.day + 1)
    THEN (IF t \div DayMinutes < tz.day THEN t \div DayMinutes ELSE tz.day)
    ELSE (t - tz.shift) \div DayMinutes

\* Minutes elapsed on the change day when the clocks change.
TransitionElapsed == IF tz.shift > 0 THEN 180 ELSE 120

\* Wall-clock minute of the day of an instant (getHours() * 60 + getMinutes()).
WallOf(t) ==
    LET d == DayOf(t)
        e == t - DayStart(d)
    IN  IF d = tz.day /\ e >= TransitionElapsed THEN e - tz.shift ELSE e

\* The instant of wall-clock minute w on calendar day d
\* (new Date(y, m, d, h, mi); Date.prototype.setHours).
LocalInstant(d, w) ==
    DayStart(d) + (IF d = tz.day /\ w >= 180 THEN w + tz.shift ELSE w)

\* Date.prototype.getFullYear / getMonth / getDate, local time.
\* Day 0 is 2024-10-14; days 0..17 are in October, 18..47 in November.
getFullYear(t) == 2024

getMonth(t) ==
    LET d == DayOf(t)
    IN  IF d <= 17 THEN 9 ELSE IF d <= 47 THEN 10 ELSE 11

getDate(t) ==
    LET d == DayOf(t)
    IN  IF d <= 17 THEN d + 14 ELSE IF d <= 47 THEN d - 17 ELSE d - 47

\* new Date(year, monthIndex, day): local midnight of that calendar day.
NewDateYMD(y, m, dom) ==
    DayStart(IF m = 9 THEN dom - 14 ELSE IF m = 10 THEN dom + 17 ELSE dom + 47)

----------------------------------------------------------------------------
(* Appointments.                                                           *)

Doctors == {"doc-1", "doc-2"}

Appointment(id, doctorId, patientId, startTime, endTime, status) ==
    [id |-> id, doctorId |-> doctorId, patientId |-> patientId,
     startTime |-> startTime, endTime |-> endTime, status |-> status]

\* All lists of at most MaxAppts appointments whose attributes come from S
\* (records without id); the id of an appointment is its place in the list.
ListsUpTo(S, max) ==
    UNION { { [i \in 1..n |->
                Appointment(i, f[i].doctorId, f[i].patientId, f[i].startTime,
                            f[i].endTime, f[i].status)] : f \in [1..n -> S] }
            : n \in 0..max }

ListsOver(S) == ListsUpTo(S, MaxAppts)

Range(s) == { s[i] : i \in 1..Len(s) }

----------------------------------------------------------------------------
(* appointmentService.ts                                                   *)

isSameDay_dom(dateA, dateB) == getDate(dateA) = getDate(dateB)

isSameDay(dateA, dateB) ==
    /\ getFullYear(dateA) = getFullYear(dateB)
    /\ getMonth(dateA) = getMonth(dateB)
    /\ getDate(dateA) = getDate(dateB)

startOfDay(d) == NewDateYMD(getFullYear(d), getMonth(d), getDate(d))

getAppointmentsByDoctorAndDate(doctorId, day) ==
    SelectSeq(MOCK_APPOINTMENTS, LAMBDA apt :
        apt.doctorId = doctorId /\ isSameDay(apt.startTime, day))

InRange_inclusiveEnd(apt, doctorId, startDate, endDate) ==
    LET aptDate == startOfDay(apt.startTime)
    IN  /\ apt.doctorId = doctorId
        /\ aptDate >= startOfDay(startDate)
        /\ aptDate <= startOfDay(endDate)

InRange(apt, doctorId, startDate, endDate) ==
    LET aptDate == startOfDay(apt.startTime)
    IN  /\ apt.doctorId = doctorId
        /\ aptDate >= startOfDay(startDate)
        /\ aptDate < startOfDay(endDate)

getAppointmentsByDoctorAndDateRange(doctorId, startDate, endDate) ==
    SelectSeq(MOCK_APPOINTMENTS, LAMBDA apt :
        InRange(apt, doctorId, startDate, endDate))

----------------------------------------------------------------------------
(* Inputs of the service specification.                                    *)

\* Local (day, minute) pairs of the stored appointments' starts:
\* 10-14T00:00, 10-20T23:59, 10-21T00:00, 10-27T23:30, 10-28T00:00, 11-14T09:00.
StoreStarts ==
    { <<0, 0>>, <<6, 23 * 60 + 59>>, <<7, 0>>, <<13, 23 * 60 + 30>>,
      <<14, 0>>, <<31, 9 * 60>> }

StoreAppts ==
    { [doctorId |-> d, patientId |-> "pat-1",
       startTime |-> LocalInstant(p[1], p[2]),
       endTime |-> LocalInstant(p[1], p[2]) + 30, status |-> "scheduled"]
      : d \in Doctors, p \in StoreStarts }

\* Dates a caller passes: 10-14T15:00, 10-20T10:00, 10-21T00:00, 10-21T09:30,
\* 10-27T12:00, 10-28T00:00, 11-14T08:00.
QueryDates ==
    { LocalInstant(p[1], p[2]) :
        p \in { <<0, 15 * 60>>, <<6, 10 * 60>>, <<7, 0>>, <<7, 9 * 60 + 30>>,
                <<13, 12 * 60>>, <<14, 0>>, <<31, 8 * 60>> } }

ServiceInit ==
    /\ tz \in TimeZones
    /\ MOCK_APPOINTMENTS \in ListsOver(StoreAppts)
    /\ call = NoCall
    /\ result = <<>>
    /\ ViewIdle /\ PageIdle /\ HookIdle

CallByDoctorAndDate ==
    /\ call = NoCall
    /\ \E doctorId \in Doctors, day \in QueryDates :
        /\ call' = [op |-> "byDoctorAndDate", doctorId |-> doctorId, date |-> day]
        /\ result' = getAppointmentsByDoctorAndDate(doctorId, day)
    /\ UNCHANGED <<tz, MOCK_APPOINTMENTS, viewVars, pageVars, hookVars>>

CallByDoctorAndDateRange ==
    /\ call = NoCall
    /\ \E doctorId \in Doctors, startDate \in QueryDates, endDate \in QueryDates :
        /\ call' = [op |-> "byDoctorAndDateRange", doctorId |-> doctorId,
                    startDate |-> startDate, endDate |-> endDate]
        /\ result' = getAppointmentsByDoctorAndDateRange(doctorId, startDate, endDate)
    /\ UNCHANGED <<tz, MOCK_APPOINTMENTS, viewVars, pageVars, hookVars>>

ServiceNext == CallByDoctorAndDate \/ CallByDoctorAndDateRange

SpecService == ServiceInit /\ [][ServiceNext]_vars

----------------------------------------------------------------------------
(* Service claims (checked under SpecService).                             *)

\* Stored appointments of a doctor whose start falls on a calendar day in [lo, hi).
OfDoctorOnDays(doctorId, lo, hi) ==
    SelectSeq(MOCK_APPOINTMENTS, LAMBDA a :
        /\ a.doctorId = doctorId
        /\ lo <= DayOf(a.startTime)
        /\ DayOf(a.startTime) < hi)

HasStart(list, doctorId, t) ==
    \E i \in 1..Len(list) : list[i].doctorId = doctorId /\ list[i].startTime = t

\* C3: getAppointmentsByDoctorAndDateRange(doctorId, startDate, endDate) returns
\* exactly (and in store order) the stored appointments of that doctor whose
\* calendar day lies in [day of startDate, day of endDate): start inclusive, end
\* exclusive, the time of day of the three dates ignored.  For the range
\* 2024-10-14..2024-10-21 a stored appointment starting 2024-10-20T23:59 is
\* returned and one starting 2024-10-21T00:00 is not.
C3_RangeFilter ==
    call.op = "byDoctorAndDateRange" =>
        /\ result = OfDoctorOnDays(call.doctorId, DayOf(call.startDate),
                                   DayOf(call.endDate))
        /\ (DayOf(call.startDate) = 0 /\ DayOf(call.endDate) = 7) =>
            /\ HasStart(MOCK_APPOINTMENTS, call.doctorId,
                        LocalInstant(6, 23 * 60 + 59))
                 => HasStart(result, call.doctorId, LocalInstant(6, 23 * 60 + 59))
            /\ ~HasStart(result, call.doctorId, LocalInstant(7, 0))

\* The range 10-14..10-21 was queried (end date given with a time of day) on a
\* store holding the doctor's 10-20T23:59 and 10-21T00:00 appointments; only the
\* first came back.
C3_Witness ==
    /\ call.op = "byDoctorAndDateRange"
    /\ DayOf(call.startDate) = 0
    /\ call.endDate = LocalInstant(7, 9 * 60 + 30)
    /\ HasStart(MOCK_APPOINTMENTS, call.doctorId, LocalInstant(6, 23 * 60 + 59))
    /\ HasStart(MOCK_APPOINTMENTS, call.doctorId, LocalInstant(7, 0))
    /\ Len(result) = 1
    /\ result[1].startTime = LocalInstant(6, 23 * 60 + 59)

\* C4: getAppointmentsByDoctorAndDate(doctorId, date) returns exactly (and in
\* store order) the stored appointments of that doctor whose start is on the
\* same local calendar day as date, whatever the time of day of either.
C4_DayFilter ==
    call.op = "byDoctorAndDate" =>
        result = OfDoctorOnDays(call.doctorId, DayOf(call.date),
                                DayOf(call.date) + 1)

\* A day query at 10:00 on 10-20 returned the doctor's 23:59 appointment of that
\* day and left out the other stored appointment.
C4_Witness ==
    /\ call.op = "byDoctorAndDate"
    /\ call.date = LocalInstant(6, 10 * 60)
    /\ Len(MOCK_APPOINTMENTS) = 2
    /\ Len(result) = 1
    /\ result[1].startTime = LocalInstant(6, 23 * 60 + 59)
    /\ result[1].doctorId = call.doctorId

----------------------------------------------------------------------------
(* date-fns, as the views use it.                                          *)

isBefore(a, b) == a < b
isAfter(a, b) == a > b
isEqual(a, b) == a = b
addMinutes(d, amount) == d + amount

\* addDays: setDate(getDate() + amount), the wall-clock time kept.
addDays(d, amount) == LocalInstant(DayOf(d) + amount, WallOf(d))

\* The range filter against the day filter (checked under SpecService).
\* C29: the two date filters agree.  For every doctorId and every day d,
\* getAppointmentsByDoctorAndDateRange(doctorId, d, d + 1 calendar day) returns
\* the same appointments in the same order as
\* getAppointmentsByDoctorAndDate(doctorId, d); and a range whose end day is not
\* after its start day returns the empty list.  The comparison over all d is made
\* on every store and time zone before a call is recorded (the filters read
\* nothing else); the recorded range calls are compared with the day filter too.
C29_FiltersAgree ==
    /\ call = NoCall =>
        \A doctorId \in Doctors, d \in QueryDates :
            getAppointmentsByDoctorAndDateRange(doctorId, d, addDays(d, 1))
                = getAppointmentsByDoctorAndDate(doctorId, d)
    /\ call.op = "byDoctorAndDateRange" =>
        /\ DayOf(call.endDate) = DayOf(call.startDate) + 1 =>
              result = getAppointmentsByDoctorAndDate(call.doctorId, call.startDate)
        /\ DayOf(call.endDate) <= DayOf(call.startDate) => result = <<>>

\* On the day the clocks change, the range 10-27T12:00..10-28T00:00 returned the
\* doctor's 23:30 appointment of 10-27 and not the stored 10-28T00:00 one, as the
\* day filter for 10-27 does.
C29_Witness ==
    /\ tz.shift # 0
    /\ call.op = "byDoctorAndDateRange"
    /\ call.startDate = LocalInstant(13, 12 * 60)
    /\ call.endDate = LocalInstant(14, 0)
    /\ HasStart(MOCK_APPOINTMENTS, call.doctorId, LocalInstant(13, 23 * 60 + 30))
    /\ HasStart(MOCK_APPOINTMENTS, call.doctorId, LocalInstant(14, 0))
    /\ Len(result) = 1
    /\ result[1].startTime = LocalInstant(13, 23 * 60 + 30)
    /\ result = getAppointmentsByDoctorAndDate(call.doctorId, call.startDate)

\* date-fns isSameDay: the two dates have the same local start of day.
dateFnsIsSameDay(a, b) == LocalInstant(DayOf(a), 0) = LocalInstant(DayOf(b), 0)

setHours_hourOnly(d, hour, minute) ==
    LocalInstant(DayOf(d), hour * 60 + minute + (WallOf(d) % 60))

\* const copy = new Date(d); copy.setHours(hour, minute, 0, 0)
setHours(d, hour, minute) == LocalInstant(DayOf(d), hour * 60 + minute)

\* format(d, 'h:mm a'), e.g. "8:00 AM": the hour on the 12-hour clock, the
\* minute and the day period.
formatTime(d) ==
    LET H == WallOf(d) \div 60
    IN  [h |-> ((H + 11) % 12) + 1, mm |-> WallOf(d) % 60,
         a |-> IF H < 12 THEN "AM" ELSE "PM"]

----------------------------------------------------------------------------
(* DayView.tsx                                                             *)

startHour == 8
endHour == 18

\* The default calendar settings; the generators do not read them.
DEFAULT_CALENDAR_CONFIG == [startHour |-> 8, endHour |-> 18, slotDuration |-> 30]

TimeSlot_hourLong(start, end) ==
    [start |-> start, end |-> start + 60, label |-> formatTime(start)]

TimeSlot(start, end) == [start |-> start, end |-> end, label |-> formatTime(start)]

\* The loop of generateTimeSlots from `hour` on: two slots per hour.
RECURSIVE SlotsFrom(_, _)
SlotsFrom(d, hour) ==
    IF hour < endHour
    THEN << TimeSlot(setHours(d, hour, 0), setHours(d, hour, 30)),
            TimeSlot(setHours(d, hour, 30), setHours(d, hour + 1, 0)) >>
         \o SlotsFrom(d, hour + 1)
    ELSE <<>>

generateTimeSlots_fromNine(d) == SlotsFrom(d, startHour + 1)

generateTimeSlots(d) == SlotsFrom(d, startHour)

OverlapsSlot_strict(slot, apt) ==
    /\ isBefore(apt.startTime, slot.end)
    /\ isAfter(apt.endTime, slot.start)

OverlapsSlot_strictEnd(slot, apt) ==
    /\ (isBefore(apt.startTime, slot.end) \/ isEqual(apt.startTime, slot.end))
    /\ isAfter(apt.endTime, slot.start)

\* The filter predicate of getAppointmentsForSlot.
OverlapsSlot(slot, apt) ==
    /\ (isBefore(apt.startTime, slot.end) \/ isEqual(apt.startTime, slot.end))
    /\ (isAfter(apt.endTime, slot.start) \/ isEqual(apt.endTime, slot.start))

getAppointmentsForSlot_reversed(slot, appts) ==
    LET kept == SelectSeq(appts, LAMBDA apt : OverlapsSlot(slot, apt))
    IN  [k \in 1..Len(kept) |-> kept[Len(kept) + 1 - k]]

\* appointments.filter(...): a new array, the kept elements in array order.
getAppointmentsForSlot(slot, appts) ==
    SelectSeq(appts, LAMBDA apt : OverlapsSlot(slot, apt))

\* A JavaScript number that is a ratio of integers, in lowest terms.
Abs(x) == IF x < 0 THEN 0 - x ELSE x

RECURSIVE GCD(_, _)
GCD(a, b) == IF b = 0 THEN a ELSE GCD(b, a % b)

Fraction(n, d) ==
    LET g == GCD(Abs(n), d)
    IN  [num |-> n \div g, den |-> d \div g]

\* n / k and q * k of JavaScript, for an integer n and a positive integer k.
Divide(n, k) == Fraction(n, k)
Times(q, k) == Fraction(q.num * k, q.den)

AppointmentCard_perHour(appointment, compact) ==
    LET durationMinutes == appointment.endTime - appointment.startTime
        heightPer30Min == IF compact THEN 20 ELSE 40
        height == Times(Divide(durationMinutes, 60), heightPer30Min)
    IN  [appointment |-> appointment, durationMinutes |-> durationMinutes,
         height |-> height]

\* The AppointmentCard component (of DayView, and of WeekView with its compact
\* flag): the duration in minutes and the height in px of the card's style.
AppointmentCard(appointment, compact) ==
    LET durationMinutes == appointment.endTime - appointment.startTime
        heightPer30Min == IF compact THEN 20 ELSE 40
        height == Times(Divide(durationMinutes, 30), heightPer30Min)
    IN  [appointment |-> appointment, durationMinutes |-> durationMinutes,
         height |-> height]

\* The "No appointments scheduled" message of the rendered view:
\* appointments.length === 0 && (...).
EmptyStateShown == Len(appointments) = 0

\* Displayed days: Wednesday 10-16 at 00:00 and at 14:20, and the
\* daylight-saving Sunday 10-27 at 01:00.
DayViewDates ==
    { LocalInstant(2, 0), LocalInstant(2, 14 * 60 + 20), LocalInstant(13, 60) }

\* Start and end of the listed appointments: <<day offset, minute>> pairs
\* relative to the displayed day.
DayViewTimes ==
    { << <<0, 9 * 60>>, <<0, 9 * 60 + 30>> >>,
      << <<0, 9 * 60>>, <<0, 10 * 60>> >>,
      << <<0, 9 * 60 + 15>>, <<0, 9 * 60 + 45>> >>,
      << <<0, 7 * 60>>, <<0, 7 * 60 + 30>> >>,
      << <<0, 7 * 60>>, <<0, 8 * 60>> >>,
      << <<0, 18 * 60>>, <<0, 18 * 60 + 30>> >>,
      << <<0, 18 * 60 + 30>>, <<0, 19 * 60>> >>,
      << <<0, 10 * 60>>, <<0, 9 * 60>> >>,
      << <<0, 9 * 60 + 20>>, <<0, 9 * 60 + 10>> >>,
      << <<1, 9 * 60>>, <<1, 9 * 60 + 30>> >>,
      << <<0 - 1, 9 * 60>>, <<1, 9 * 60>> >> }

\* The listed appointments: every pair of times for one doctor, and two of them
\* (9:00-9:30, and the one spanning three days) also as a cancelled appointment
\* of another doctor.
DayViewAppts(d) ==
    { [doctorId |-> "doc-1", patientId |-> "pat-1",
       startTime |-> LocalInstant(DayOf(d) + p[1][1], p[1][2]),
       endTime |-> LocalInstant(DayOf(d) + p[2][1], p[2][2]),
       status |-> "scheduled"] : p \in DayViewTimes }
    \cup
    { [doctorId |-> "doc-2", patientId |-> "pat-1",
       startTime |-> LocalInstant(DayOf(d) + p[1][1], p[1][2]),
       endTime |-> LocalInstant(DayOf(d) + p[2][1], p[2][2]),
       status |-> "cancelled"]
      : p \in { << <<0, 9 * 60>>, <<0, 9 * 60 + 30>> >>,
                << <<0 - 1, 9 * 60>>, <<1, 9 * 60>> >> } }

DayInit ==
    /\ tz \in TimeZones
    /\ date \in DayViewDates
    /\ appointments \in ListsOver(DayViewAppts(date))
    /\ timeSlots = <<>>
    /\ slotAppointments = <<>>
    /\ cards = <<>>
    /\ weekStartDate = 0 /\ weekDays = <<>>
    /\ loading = FALSE /\ error = "null" /\ deps = <<>>
    /\ ServiceIdle /\ PageIdle

\* One render of DayView: the memoised slots and, per slot, its appointments.
DayViewRender ==
    /\ view = "day"
    /\ timeSlots = <<>>
    /\ timeSlots' = generateTimeSlots(date)
    /\ slotAppointments' =
         [i \in 1..Len(timeSlots') |->
            getAppointmentsForSlot(timeSlots'[i], appointments)]
    /\ cards' =
         [i \in 1..Len(timeSlots') |->
            [k \in 1..Len(slotAppointments'[i]) |->
                AppointmentCard(slotAppointments'[i][k], FALSE)]]
    /\ UNCHANGED <<tz, serviceVars, date, weekStartDate, weekDays, pageVars, hookVars>>

DayNext == DayViewRender

SpecDay == DayInit /\ [][DayNext]_vars

----------------------------------------------------------------------------
(* Day view claims (checked under SpecDay).                                *)

Rendered == timeSlots # <<>>

Shown(i, apt) == \E k \in 1..Len(slotAppointments[i]) : slotAppointments[i][k] = apt

\* Wall-clock <<start, end>> minutes of slot i on its day.
SlotWall(i) == <<WallOf(timeSlots[i].start), WallOf(timeSlots[i].end)>>

RECURSIVE IsSubsequence(_, _)
IsSubsequence(s, t) ==
    IF s = <<>> THEN TRUE
    ELSE IF t = <<>> THEN FALSE
    ELSE IF Head(s) = Head(t) THEN IsSubsequence(Tail(s), Tail(t))
    ELSE IsSubsequence(s, Tail(t))

\* C19: getAppointmentsForSlot returns, for every slot, a list that is an
\* order-preserving subsequence of the appointment list it was given, and the
\* render that calls it leaves that list and every appointment in it unchanged.
C19_FilterIsPure ==
    [][DayViewRender =>
        /\ appointments' = appointments
        /\ \A i \in 1..Len(timeSlots') :
            IsSubsequence(slotAppointments'[i], appointments)]_vars

\* A slot shows both appointments of the list in the order of the list, which
\* is not the order of their start times, and another slot shows only one.
C19_Witness ==
    /\ Rendered
    /\ Len(appointments) = 2
    /\ appointments[1].startTime > appointments[2].startTime
    /\ \E i \in 1..Len(timeSlots) : slotAppointments[i] = appointments
    /\ \E i \in 1..Len(timeSlots) : Len(slotAppointments[i]) = 1

----------------------------------------------------------------------------
(* appointmentService.ts: sorting and overlap grouping.                    *)

\* Place of apt in an already sorted list: after every element whose start is
\* not later (Array.prototype.sort is stable).
RECURSIVE InsertByStart(_, _)
InsertByStart(sorted, apt) ==
    IF sorted = <<>> THEN <<apt>>
    ELSE IF sorted[Len(sorted)].startTime - apt.startTime <= 0
         THEN Append(sorted, apt)
         ELSE Append(InsertByStart(SubSeq(sorted, 1, Len(sorted) - 1), apt),
                     sorted[Len(sorted)])

RECURSIVE SortPrefix(_, _)
SortPrefix(appts, n) ==
    IF n = 0 THEN <<>> ELSE InsertByStart(SortPrefix(appts, n - 1), appts[n])

sortAppointmentsByTime_unsorted(appts) == appts

\* [...appointments].sort((a, b) => start(a) - start(b))
sortAppointmentsByTime(appts) == SortPrefix(appts, Len(appts))

JoinsGroup_maxEnd(currentGroup, apt) ==
    \/ Len(currentGroup) = 0
    \/ \E k \in 1..Len(currentGroup) : apt.startTime < currentGroup[k].endTime

JoinsGroup_touching(currentGroup, apt) ==
    \/ Len(currentGroup) = 0
    \/ apt.startTime <= currentGroup[Len(currentGroup)].endTime

\* The test of the forEach body: the group is empty, or the appointment starts
\* before the end of the last appointment of the group.
JoinsGroup(currentGroup, apt) ==
    \/ Len(currentGroup) = 0
    \/ apt.startTime < currentGroup[Len(currentGroup)].endTime

GroupStep_dropOnClose(st, apt) ==
    IF JoinsGroup(st.currentGroup, apt)
    THEN [overlaps |-> st.overlaps, currentGroup |-> Append(st.currentGroup, apt)]
    ELSE [overlaps |-> st.overlaps, currentGroup |-> <<apt>>]

\* One turn of the forEach body on the state (overlaps, currentGroup).
GroupStep(st, apt) ==
    IF JoinsGroup(st.currentGroup, apt)
    THEN [overlaps |-> st.overlaps, currentGroup |-> Append(st.currentGroup, apt)]
    ELSE [overlaps |-> Append(st.overlaps, st.currentGroup),
          currentGroup |-> <<apt>>]

RECURSIVE GroupPrefix(_, _)
GroupPrefix(sorted, n) ==
    IF n = 0 THEN [overlaps |-> <<>>, currentGroup |-> <<>>]
    ELSE GroupStep(GroupPrefix(sorted, n - 1), sorted[n])

getOverlappingAppointments(appts) ==
    LET sorted == sortAppointmentsByTime(appts)
        st == GroupPrefix(sorted, Len(sorted))
    IN  IF Len(st.currentGroup) > 0
        THEN Append(st.overlaps, st.currentGroup)
        ELSE st.overlaps

\* Wall-clock <<start, end>> minutes (on 10-16) of the appointments to group:
\* 9:00-10:00, 9:15-9:45, 9:50-10:15, 10:00-10:30, 9:00-9:10, 11:00-11:30 and
\* one whose end precedes its start, 9:30-9:00.
GroupTimes ==
    { <<9 * 60, 10 * 60>>, <<9 * 60 + 15, 9 * 60 + 45>>,
      <<9 * 60 + 50, 10 * 60 + 15>>, <<10 * 60, 10 * 60 + 30>>,
      <<9 * 60, 9 * 60 + 10>>, <<11 * 60, 11 * 60 + 30>>,
      <<9 * 60 + 30, 9 * 60>> }

GroupAppts ==
    { [doctorId |-> "doc-1", patientId |-> "pat-1",
       startTime |-> LocalInstant(2, p[1]), endTime |-> LocalInstant(2, p[2]),
       status |-> "scheduled"] : p \in GroupTimes }

GroupInit ==
    /\ tz = [shift |-> 0, day |-> 13]
    /\ MOCK_APPOINTMENTS = <<>>
    /\ call = NoCall
    /\ result = <<>>
    /\ ViewIdle /\ PageIdle /\ HookIdle

CallGetOverlappingAppointments ==
    /\ call = NoCall
    /\ \E appts \in ListsUpTo(GroupAppts, MaxGroupInput) :
        /\ call' = [op |-> "getOverlappingAppointments", appointments |-> appts]
        /\ result' = getOverlappingAppointments(appts)
    /\ UNCHANGED <<tz, MOCK_APPOINTMENTS, viewVars, pageVars, hookVars>>

GroupNext == CallGetOverlappingAppointments

SpecGroup == GroupInit /\ [][GroupNext]_vars

----------------------------------------------------------------------------
(* Grouping claims (checked under SpecGroup).                              *)

Grouped == call.op = "getOverlappingAppointments"

\* Places <<group, index>> at which apt occurs in a list of groups.
PlacesOf(groups, apt) ==
    { gk \in UNION { {<<g, k>> : k \in 1..Len(groups[g])} : g \in 1..Len(groups) } :
        groups[gk[1]][gk[2]] = apt }

RECURSIVE Flatten(_)
Flatten(groups) ==
    IF groups = <<>> THEN <<>> ELSE Head(groups) \o Flatten(Tail(groups))

\* C7: the returned groups partition the input: every input appointment occurs
\* at exactly one place of exactly one group, no group is empty, every grouped
\* appointment is an input appointment, and the empty input gives no group.
C7_Partition ==
    Grouped =>
        /\ \A g \in 1..Len(result) : Len(result[g]) > 0
        /\ \A i \in 1..Len(call.appointments) :
            Cardinality(PlacesOf(result, call.appointments[i])) = 1
        /\ \A g \in 1..Len(result) : Range(result[g]) \subseteq Range(call.appointments)
        /\ (call.appointments = <<>>) => (result = <<>>)

\* Three appointments were split into two non-empty groups.
C7_Witness ==
    /\ Grouped
    /\ Len(call.appointments) = 3
    /\ Len(result) = 2
    /\ Len(result[1]) = 2
    /\ Len(result[2]) = 1

\* C8: the groups, concatenated in order, are the input sorted by start time:
\* the same appointments, with start times that never decrease.
C8_StartOrder ==
    Grouped =>
        LET flat == Flatten(result)
        IN  /\ Len(flat) = Len(call.appointments)
            /\ Range(flat) = Range(call.appointments)
            /\ \A k \in 1..(Len(flat) - 1) : flat[k].startTime <= flat[k + 1].startTime

\* An input handed over in descending start order came back as several groups in
\* ascending order.
C8_Witness ==
    /\ Grouped
    /\ Len(call.appointments) = 3
    /\ call.appointments[1].startTime > call.appointments[2].startTime
    /\ call.appointments[2].startTime > call.appointments[3].startTime
    /\ Len(result) >= 2
    /\ Flatten(result) = << call.appointments[3], call.appointments[2],
                            call.appointments[1] >>

\* Every appointment of the list ends after it starts.
WellFormed(appts) == \A i \in 1..Len(appts) : appts[i].startTime < appts[i].endTime

\* Two appointments overlap in time.
TimeOverlap(a, b) == a.startTime < b.endTime /\ b.startTime < a.endTime

\* The overlap cluster of a set S of appointments of appts: all appointments
\* connected to S by a chain of pairwise overlaps.
RECURSIVE Cluster(_, _)
Cluster(appts, S) ==
    LET T == S \cup { b \in Range(appts) : \E a \in S : TimeOverlap(a, b) }
    IN  IF T = S THEN S ELSE Cluster(appts, T)

SameGroup(groups, a, b) ==
    \E g \in 1..Len(groups) : a \in Range(groups[g]) /\ b \in Range(groups[g])

\* C9: the returned groups are exactly the maximal overlap clusters: two input
\* appointments are in the same group if and only if a chain of pairwise time
\* overlaps connects them (9:00-10:00, 9:15-9:45, 9:50-10:15 form one group).
\* Stated for inputs whose appointments end after they start.
C9_MaximalClusters ==
    (Grouped /\ WellFormed(call.appointments)) =>
        \A a \in Range(call.appointments), b \in Range(call.appointments) :
            SameGroup(result, a, b) <=> b \in Cluster(call.appointments, {a})

\* The groups as a set of sets of appointments.
PartitionOf(groups) == { Range(groups[g]) : g \in 1..Len(groups) }

PermutationsOf(appts) ==
    { [i \in 1..Len(appts) |-> appts[f[i]]] : f \in Permutations(1..Len(appts)) }

\* C10: the grouping does not depend on the order of the input: every
\* permutation of the input list, lists with equal start times included, is
\* split into the same groups.  Stated for inputs whose appointments end after
\* they start.
C10_OrderIndependent ==
    (Grouped /\ WellFormed(call.appointments)) =>
        \A p \in PermutationsOf(call.appointments) :
            PartitionOf(getOverlappingAppointments(p)) = PartitionOf(result)

\* C11: within every returned group, every appointment after the first starts
\* strictly before the end of the appointment placed immediately before it, so
\* that consecutive members overlap and the group is connected by an overlap
\* chain; for inputs whose appointments end after they start.
C11_OverlapChain ==
    (Grouped /\ WellFormed(call.appointments)) =>
        \A g \in 1..Len(result) : \A k \in 2..Len(result[g]) :
            /\ result[g][k].startTime < result[g][k - 1].endTime
            /\ TimeOverlap(result[g][k - 1], result[g][k])
            /\ result[g][k] \in Cluster(call.appointments, {result[g][1]})

\* A group of three was returned whose first and last members do not overlap:
\* only the chain through the middle one connects them.
C11_Witness ==
    /\ Grouped
    /\ WellFormed(call.appointments)
    /\ Len(result) = 1
    /\ Len(result[1]) = 3
    /\ ~TimeOverlap(result[1][1], result[1][3])

\* The call was made with three appointments at the given wall-clock times (on
\* 10-16), in this order.
CalledWithTimes(t1, t2, t3) ==
    /\ Grouped
    /\ Len(call.appointments) = 3
    /\ \A i \in 1..3 :
        LET t == <<t1, t2, t3>>[i]
        IN  /\ WallOf(call.appointments[i].startTime) = t[1]
            /\ WallOf(call.appointments[i].endTime) = t[2]

\* C21: whether an appointment extends the current group is decided by its
\* start and the end of the last appointment added to the group alone: a group
\* is closed exactly by an appointment that does not start before the end of
\* the group's last member, whatever the earlier members' ends; so the sorted
\* input A 9:00-10:00, B 9:15-9:45, C 9:50-10:15 gives the groups [A, B], [C].
C21_LastAddedComparison ==
    Grouped =>
        /\ \A g \in 1..Len(result) : \A k \in 2..Len(result[g]) :
            result[g][k].startTime < result[g][k - 1].endTime
        /\ \A g \in 1..(Len(result) - 1) :
            result[g + 1][1].startTime >= result[g][Len(result[g])].endTime
        /\ CalledWithTimes(<<9 * 60, 10 * 60>>, <<9 * 60 + 15, 9 * 60 + 45>>,
                           <<9 * 60 + 50, 10 * 60 + 15>>) =>
                result = << <<call.appointments[1], call.appointments[2]>>,
                            <<call.appointments[3]>> >>

\* The input A, B, C was grouped: C starts before A ends and is in another
\* group than A.
C21_Witness ==
    /\ CalledWithTimes(<<9 * 60, 10 * 60>>, <<9 * 60 + 15, 9 * 60 + 45>>,
                       <<9 * 60 + 50, 10 * 60 + 15>>)
    /\ Len(result) = 2
    /\ result[2][1].startTime < result[1][1].endTime

----------------------------------------------------------------------------
(* WeekView (src/types/index.ts)                                           *)

\* Array(7).fill(null).map((_, i) => addDays(weekStartDate, i))
getWeekDays(monday) == [i \in 1..7 |-> addDays(monday, i - 1)]

\* WeekView's generateTimeSlots: the slots of the day of weekStartDate.
weekGenerateTimeSlots(monday) == SlotsFrom(monday, startHour)

\* The filter predicate of getAppointmentsForDayAndSlot.
OnDayAndSlot(day, slotStart, apt) ==
    /\ dateFnsIsSameDay(apt.startTime, day)
    /\ \/ isBefore(apt.startTime, addMinutes(slotStart, 30))
       \/ isEqual(apt.startTime, addMinutes(slotStart, 30))
    /\ (isAfter(apt.endTime, slotStart) \/ isEqual(apt.endTime, slotStart))

getAppointmentsForDayAndSlot(day, slotStart, appts) ==
    SelectSeq(appts, LAMBDA apt : OnDayAndSlot(day, slotStart, apt))

\* Displayed weeks: the Monday 10-14 and the Monday 10-21, at midnight.
WeekStartDates == { LocalInstant(0, 0), LocalInstant(7, 0) }

\* The listed appointments, as <<day of the week, start minute, end minute>>:
\* Monday 9:00-9:30, Monday 9:00-10:00, Monday 9:20-9:10 (its end precedes its
\* start), Wednesday 9:00-9:30, Wednesday 9:15-10:00, Sunday 9:00-9:30 and the
\* following Monday 9:00-9:30.
WeekViewTimes ==
    { <<0, 9 * 60, 9 * 60 + 30>>, <<0, 9 * 60, 10 * 60>>,
      <<0, 9 * 60 + 20, 9 * 60 + 10>>, <<2, 9 * 60, 9 * 60 + 30>>,
      <<2, 9 * 60 + 15, 10 * 60>>, <<6, 9 * 60, 9 * 60 + 30>>,
      <<7, 9 * 60, 9 * 60 + 30>> }

WeekViewAppts(monday) ==
    { [doctorId |-> "doc-1", patientId |-> "pat-1",
       startTime |-> LocalInstant(DayOf(monday) + p[1], p[2]),
       endTime |-> LocalInstant(DayOf(monday) + p[1], p[3]),
       status |-> "scheduled"] : p \in WeekViewTimes }

WeekInit ==
    /\ tz \in TimeZones
    /\ weekStartDate \in WeekStartDates
    /\ appointments \in ListsOver(WeekViewAppts(weekStartDate))
    /\ timeSlots = <<>>
    /\ weekDays = <<>>
    /\ slotAppointments = <<>>
    /\ cards = <<>>
    /\ date = 0
    /\ loading = FALSE /\ error = "null" /\ deps = <<>>
    /\ selectedDoctorId = "" /\ selectedDate = 0 /\ view = "week"
    /\ ServiceIdle

\* One render of WeekView: the memoised days and slots and, per day and slot,
\* the appointments of the cell.
WeekViewRender ==
    /\ view = "week"
    /\ weekDays = <<>>
    /\ weekDays' = getWeekDays(weekStartDate)
    /\ timeSlots' = weekGenerateTimeSlots(weekStartDate)
    /\ slotAppointments' =
         [d \in 1..7 |->
            [i \in 1..Len(timeSlots') |->
                getAppointmentsForDayAndSlot(weekDays'[d], timeSlots'[i].start,
                                             appointments)]]
    /\ cards' =
         [d \in 1..7 |->
            [i \in 1..Len(timeSlots') |->
                [k \in 1..Len(slotAppointments'[d][i]) |->
                    AppointmentCard(slotAppointments'[d][i][k], TRUE)]]]
    /\ UNCHANGED <<tz, serviceVars, date, weekStartDate, pageVars, hookVars>>

WeekNext == WeekViewRender

SpecWeek == WeekInit /\ [][WeekNext]_vars

----------------------------------------------------------------------------
(* Week grid claims (checked under SpecWeek).                              *)

WeekRendered == weekDays # <<>>

InCell(d, i, apt) ==
    \E k \in 1..Len(slotAppointments[d][i]) : slotAppointments[d][i][k] = apt

\* Start of slot i taken on day d of the displayed week (d = 1 is Monday).
SlotStartOn(d, i) ==
    LocalInstant(DayOf(weekStartDate) + d - 1, WallOf(timeSlots[i].start))

\* C6: the cell of day d (Monday..Sunday) and slot s shows appointment A if and
\* only if A starts on calendar day d and A's interval inclusively overlaps the
\* slot's interval taken on day d (slot start .. slot start + 30 minutes), so a
\* Wednesday 9:00-9:30 appointment is shown in Wednesday's 9:00 cell.
C6_WeekCell ==
    WeekRendered =>
        \A d \in 1..7, i \in 1..Len(timeSlots), j \in 1..Len(appointments) :
            LET A == appointments[j]
            IN  InCell(d, i, A) <=>
                    /\ DayOf(A.startTime) = DayOf(weekStartDate) + d - 1
                    /\ A.startTime <= SlotStartOn(d, i) + 30
                    /\ A.endTime >= SlotStartOn(d, i)

----------------------------------------------------------------------------
(* ScheduleView mounting one of the two views.                             *)

ViewsInit == DayInit \/ WeekInit

ViewsNext == DayViewRender \/ WeekViewRender

SpecViews == ViewsInit /\ [][ViewsNext]_vars

----------------------------------------------------------------------------
(* Appointment card claims (checked under SpecViews).                      *)

\* The cards on the screen.
ShownCards ==
    IF view = "day"
    THEN UNION { Range(cards[i]) : i \in 1..Len(cards) }
    ELSE UNION { Range(cards[d][i]) : d \in 1..Len(cards), i \in 1..20 }

\* Pixels per slot of the mounted view: 40 in the day view, 20 in the week view.
UnitsPerSlot == IF view = "day" THEN 40 ELSE 20

\* C14: the size of a card is (durationMinutes / 30) * unitsPerSlot with
\* durationMinutes = end - start: a 60-minute appointment gets 80 in the day
\* view (40 per slot) and 40 in the week view (20 per slot).
C14_VisualSize ==
    \A c \in ShownCards :
        /\ c.durationMinutes = c.appointment.endTime - c.appointment.startTime
        /\ c.height.den > 0
        /\ c.height.num * 30 = c.durationMinutes * UnitsPerSlot * c.height.den
        /\ (c.durationMinutes = 60) =>
                c.height = [num |-> IF view = "day" THEN 80 ELSE 40, den |-> 1]

\* The week view shows the card of a 60-minute appointment, 40 high.
C14_Witness ==
    /\ view = "week"
    /\ \E c \in ShownCards :
        c.durationMinutes = 60 /\ c.height = [num |-> 40, den |-> 1]

\* C15: the size of an appointment whose end precedes its start is never
\* computed (the computation fails with InvalidDuration): no card of such an
\* appointment and no card of negative size is on the screen.
C15_NoNegativeSize ==
    \A c \in ShownCards :
        /\ c.appointment.endTime >= c.appointment.startTime
        /\ c.height.num >= 0

----------------------------------------------------------------------------
(* Day timeline claims (checked under SpecViews).                          *)

DayRendered == view = "day" /\ Rendered

\* Indices of the slots of the day timeline that show appointment A.
SlotsShowing(A) == { i \in 1..Len(timeSlots) : Shown(i, A) }

\* The cards rendered for appointment A in slot i.
CardsOf(i, A) == { c \in Range(cards[i]) : c.appointment = A }

OnDisplayedDay(w) == LocalInstant(DayOf(date), w)

----------------------------------------------------------------------------
(* Slot generation claims (C12 under SpecViews, C13 under SpecDay).       *)

\* Number of slots of a window: (endHour - startHour) * 60 / slotDuration.
SlotCount(config) ==
    ((config.endHour - config.startHour) * 60) \div config.slotDuration

\* C12: generateTimeSlots returns exactly (endHour - startHour) * 60 / 30 = 20
\* slots for the window 8-18, for every reference date, in the day view and in
\* the week view.
C12_SlotCount ==
    Rendered =>
        /\ Len(timeSlots) = SlotCount(DEFAULT_CALENDAR_CONFIG)
        /\ Len(timeSlots) = 20
        /\ Len(weekGenerateTimeSlots(date)) = 20

\* The slots of the daylight-saving Sunday were generated in a zone whose clocks
\* change that day.
C12_Witness ==
    /\ Rendered
    /\ DayOf(date) = tz.day
    /\ tz.shift # 0
    /\ Len(timeSlots) = 20

\* C13: the generated slots are ordered, contiguous and non-overlapping: the
\* first starts at 8:00 of the reference day, the last ends at 18:00 of the
\* reference day, every slot ends 30 minutes after it starts, and every slot's
\* end is the next slot's start.
C13_Contiguous ==
    Rendered =>
        /\ DayOf(timeSlots[1].start) = DayOf(date)
        /\ WallOf(timeSlots[1].start) = 8 * 60
        /\ DayOf(timeSlots[Len(timeSlots)].end) = DayOf(date)
        /\ WallOf(timeSlots[Len(timeSlots)].end) = 18 * 60
        /\ \A i \in 1..Len(timeSlots) :
            timeSlots[i].end = timeSlots[i].start + 30
        /\ \A i \in 1..(Len(timeSlots) - 1) :
            /\ timeSlots[i].end = timeSlots[i + 1].start
            /\ timeSlots[i].start < timeSlots[i + 1].start

\* The slots were generated from a reference date in the afternoon: the first
\* slot lies before the reference instant, the last one after it.
C13_Witness ==
    /\ Rendered
    /\ WallOf(date) = 14 * 60 + 20
    /\ timeSlots[1].start < date
    /\ timeSlots[Len(timeSlots)].end > date

----------------------------------------------------------------------------
(* The three slot generators of the repository, called on the views' date  *)
(* objects.                                                                *)

\* One turn of the loop of the earlier WeekView's generateTimeSlots.  Every
\* weekStartDate.setHours(...) changes the weekStartDate object itself and
\* returns its new timestamp; ws is the object's timestamp before the turn.
oldSlotsOfHour(ws, hour) ==
    LET start1 == setHours(ws, hour, 0)
        end1 == setHours(start1, hour, 30)
        label1 == setHours(end1, hour, 0)
        start2 == setHours(label1, hour, 30)
        end2 == setHours(start2, hour + 1, 0)
        label2 == setHours(end2, hour, 30)
    IN  [slots |-> << [start |-> start1, end |-> end1,
                       label |-> formatTime(label1)],
                      [start |-> start2, end |-> end2,
                       label |-> formatTime(label2)] >>,
         weekStartDate |-> label2]

RECURSIVE oldSlotsFrom(_, _)
oldSlotsFrom(ws, hour) ==
    IF hour < endHour
    THEN LET turn == oldSlotsOfHour(ws, hour)
             rest == oldSlotsFrom(turn.weekStartDate, hour + 1)
         IN  [slots |-> turn.slots \o rest.slots,
              weekStartDate |-> rest.weekStartDate]
    ELSE [slots |-> <<>>, weekStartDate |-> ws]

\* The earlier WeekView's generateTimeSlots: the slots and the timestamp it
\* leaves in weekStartDate.
oldGenerateTimeSlots(ws) == oldSlotsFrom(ws, startHour)

\* Reference dates of the day view: Wednesday 10-16 at 00:00, 08:10 and 14:20,
\* and the daylight-saving Sunday 10-27 at 01:00.
SlotDates ==
    { LocalInstant(2, 0), LocalInstant(2, 8 * 60 + 10),
      LocalInstant(2, 14 * 60 + 20), LocalInstant(13, 60) }

SlotsInit ==
    /\ tz \in TimeZones
    /\ date \in SlotDates
    /\ weekStartDate \in WeekStartDates
    /\ call = NoCall
    /\ result = <<>>
    /\ MOCK_APPOINTMENTS = <<>>
    /\ timeSlots = <<>> /\ weekDays = <<>> /\ slotAppointments = <<>>
    /\ cards = <<>>
    /\ PageIdle /\ HookIdle

\* A call of a generator: the generator, the timestamp of its reference date
\* object before and after the call, and the slots returned.
Generated(impl, before, after, slots) ==
    [impl |-> impl, before |-> before, after |-> after, slots |-> slots]

\* DayView's generateTimeSlots(date).
CallGenerateTimeSlots ==
    /\ Len(result) < MaxCalls
    /\ call' = [op |-> "generateTimeSlots", impl |-> "DayView"]
    /\ result' = Append(result,
                    Generated("DayView", date, date, generateTimeSlots(date)))
    /\ UNCHANGED <<tz, MOCK_APPOINTMENTS, viewVars, pageVars, hookVars>>

\* WeekView's generateTimeSlots().
CallWeekGenerateTimeSlots ==
    /\ Len(result) < MaxCalls
    /\ call' = [op |-> "generateTimeSlots", impl |-> "WeekView"]
    /\ result' = Append(result,
                    Generated("WeekView", weekStartDate, weekStartDate,
                              weekGenerateTimeSlots(weekStartDate)))
    /\ UNCHANGED <<tz, MOCK_APPOINTMENTS, viewVars, pageVars, hookVars>>

\* The earlier WeekView's generateTimeSlots().
CallOldGenerateTimeSlots ==
    /\ Len(result) < MaxCalls
    /\ LET out == oldGenerateTimeSlots(weekStartDate)
       IN  /\ call' = [op |-> "generateTimeSlots", impl |-> "WeekView (earlier)"]
           /\ weekStartDate' = out.weekStartDate
           /\ result' = Append(result,
                           Generated("WeekView (earlier)", weekStartDate,
                                     out.weekStartDate, out.slots))
    /\ UNCHANGED <<tz, MOCK_APPOINTMENTS, date, timeSlots, weekDays,
                   slotAppointments, cards, pageVars, hookVars>>

\* The parent hands the day view another date (onDateChange).
SlotsDateChange ==
    /\ \E d \in SlotDates : d # date /\ date' = d
    /\ UNCHANGED <<tz, serviceVars, weekStartDate, timeSlots, weekDays,
                   slotAppointments, cards, pageVars, hookVars>>

SlotsNext ==
    \/ CallGenerateTimeSlots
    \/ CallWeekGenerateTimeSlots
    \/ CallOldGenerateTimeSlots
    \/ SlotsDateChange

SpecSlots == SlotsInit /\ [][SlotsNext]_vars

----------------------------------------------------------------------------
(* Generator claims (checked under SpecSlots).                             *)

\* C17: slot generation is deterministic: two calls of a generator whose
\* reference dates are on the same calendar day, at the same or at different
\* times of day, return sequences of equal length whose slots are equal in
\* start, end and label.
C17_Deterministic ==
    \A i \in 1..Len(result), j \in 1..Len(result) :
        (/\ result[i].impl = result[j].impl
         /\ DayOf(result[i].before) = DayOf(result[j].before)) =>
            /\ Len(result[i].slots) = Len(result[j].slots)
            /\ \A k \in 1..Len(result[i].slots) :
                /\ result[i].slots[k].start = result[j].slots[k].start
                /\ result[i].slots[k].end = result[j].slots[k].end
                /\ result[i].slots[k].label = result[j].slots[k].label

\* One generator was called twice with reference dates on the same day at
\* different times of day.
C17_Witness ==
    \E i \in 1..Len(result), j \in 1..Len(result) :
        /\ i < j
        /\ result[i].impl = result[j].impl
        /\ DayOf(result[i].before) = DayOf(result[j].before)
        /\ result[i].before # result[j].before
        /\ Len(result[i].slots) = 20

\* C18: slot generation has no side effect: after each call, in every
\* implementation of the generator, the reference date object has the timestamp
\* it had before the call.
C18_NoSideEffect ==
    \A i \in 1..Len(result) : result[i].after = result[i].before

----------------------------------------------------------------------------
(* SchedulePage, ScheduleView and useAppointments.                         *)

\* An optional value (T | undefined, T | null) is <<>> when absent and <<v>>
\* when it is v.
Undefined == <<>>
Some(v) == <<v>>
Null == "null"

MOCK_DOCTORS == Doctors
MOCK_PATIENTS == {"pat-1"}

\* getDoctorById / getPatientById of the mock data: the record, or undefined.
mockGetDoctorById(id) ==
    IF id \in MOCK_DOCTORS THEN Some([id |-> id]) ELSE Undefined
mockGetPatientById(id) ==
    IF id \in MOCK_PATIENTS THEN Some([id |-> id]) ELSE Undefined

getPopulatedAppointment_placeholder(appointment) ==
    LET doctor == mockGetDoctorById(appointment.doctorId)
        patient == mockGetPatientById(appointment.patientId)
    IN  IF doctor = Undefined
        THEN Undefined
        ELSE Some(appointment @@
                  [doctor |-> doctor[1],
                   patient |-> IF patient = Undefined
                               THEN [id |-> "unknown"] ELSE patient[1]])

\* The populated appointment, or absent (null).
getPopulatedAppointment(appointment) ==
    LET doctor == mockGetDoctorById(appointment.doctorId)
        patient == mockGetPatientById(appointment.patientId)
    IN  IF doctor = Undefined \/ patient = Undefined
        THEN Undefined
        ELSE Some(appointment @@ [doctor |-> doctor[1], patient |-> patient[1]])

\* Date.prototype.getDay: 0 is Sunday; day 0 of the model is a Monday.
getDay(d) == (DayOf(d) + 1) % 7

\* startOfWeek(date, { weekStartsOn: 1 }): local midnight of the Monday on or
\* before the date.
getWeekStart(d) ==
    LET diff == (IF getDay(d) < 1 THEN 7 ELSE 0) + getDay(d) - 1
    IN  LocalInstant(DayOf(d) - diff, 0)

\* useWeekViewAppointments: endDate.setDate(weekStart.getDate() + 7), seven
\* calendar days later at the same wall-clock time.  ScheduleView does not call
\* it.
WeekEnd_calendarDays(monday) == LocalInstant(DayOf(monday) + 7, WallOf(monday))

\* new Date(getWeekStart(selectedDate).getTime() + 7 * 86400000)
WeekEnd(monday) == monday + 7 * DayMinutes

\* The parameters ScheduleView hands to useAppointments.
HookParams ==
    IF view = "week"
    THEN [doctorId |-> selectedDoctorId, date |-> Undefined,
          startDate |-> Some(getWeekStart(selectedDate)),
          endDate |-> Some(WeekEnd(getWeekStart(selectedDate)))]
    ELSE [doctorId |-> selectedDoctorId, date |-> Some(selectedDate),
          startDate |-> Undefined, endDate |-> Undefined]

\* d?.toDateString(): the local calendar day, or undefined.
toDateString(d) ==
    IF d = Undefined THEN Undefined
    ELSE <<getDay(d[1]), getMonth(d[1]), getDate(d[1]), getFullYear(d[1])>>

\* The dependency array of the fetch effect.
DepsOf_noDoctor(p) ==
    <<"", toDateString(p.date), toDateString(p.startDate),
      toDateString(p.endDate)>>

DepsOf(p) ==
    <<p.doctorId, toDateString(p.date), toDateString(p.startDate),
      toDateString(p.endDate)>>

\* The query the effect makes.
FetchData_dateFirst(p) ==
    IF p.date # Undefined
    THEN getAppointmentsByDoctorAndDate(p.doctorId, p.date[1])
    ELSE IF p.startDate # Undefined /\ p.endDate # Undefined
         THEN getAppointmentsByDoctorAndDateRange(p.doctorId, p.startDate[1],
                                                  p.endDate[1])
         ELSE <<>>

FetchData(p) ==
    IF p.startDate # Undefined /\ p.endDate # Undefined
    THEN getAppointmentsByDoctorAndDateRange(p.doctorId, p.startDate[1],
                                             p.endDate[1])
    ELSE IF p.date # Undefined
         THEN getAppointmentsByDoctorAndDate(p.doctorId, p.date[1])
         ELSE <<>>

\* data.map(getPopulatedAppointment).filter(apt => !!apt)
Populate(data) ==
    LET mapped == [i \in 1..Len(data) |-> getPopulatedAppointment(data[i])]
        kept == SelectSeq(mapped, LAMBDA apt : apt # Undefined)
    IN  [i \in 1..Len(kept) |-> kept[i][1]]

\* The stored appointments of the page specification: doc-1 on Monday 10-21,
\* Sunday 10-27 and Monday 10-28 (at midnight), doc-2 on Sunday 10-27, a doc-1
\* appointment on Wednesday 10-23 whose patient does not resolve, and one on
\* that day whose doctor does not resolve.
PageStoreAppts ==
    { [doctorId |-> p[1], patientId |-> p[2],
       startTime |-> LocalInstant(p[3], p[4]),
       endTime |-> LocalInstant(p[3], p[4]) + 30, status |-> "scheduled"]
      : p \in { <<"doc-1", "pat-1", 7, 9 * 60>>, <<"doc-1", "pat-1", 13, 9 * 60>>,
                <<"doc-1", "pat-1", 14, 0>>, <<"doc-2", "pat-1", 13, 9 * 60>>,
                <<"doc-1", "pat-9", 9, 9 * 60>>,
                <<"doc-9", "pat-1", 9, 9 * 60>> } }

\* Dates the page is opened on or the user picks: Wednesday 10-23 at 08:00 and at
\* 14:20, Sunday 10-27 at 10:00, Monday 10-28 at 00:30.
PageDates ==
    { LocalInstant(9, 8 * 60), LocalInstant(9, 14 * 60 + 20),
      LocalInstant(13, 10 * 60), LocalInstant(14, 30) }

\* The doctor selector's values ("" is its placeholder option).
SelectableDoctors == MOCK_DOCTORS \cup {""}

\* SchedulePage mounted: the first render is committed, the effect has not run.
Init ==
    /\ tz \in TimeZones
    /\ MOCK_APPOINTMENTS \in ListsOver(PageStoreAppts)
    /\ selectedDoctorId = "doc-1"
    /\ selectedDate \in PageDates
    /\ view = "day"
    /\ appointments = <<>>
    /\ loading = TRUE
    /\ error = Null
    /\ deps = <<>>
    /\ call = NoCall /\ result = <<>>
    /\ ViewIdle

EffectPending == deps # DepsOf(HookParams)

\* What a service call of the effect may throw: nothing, or an error.
Thrown == {Undefined, Some("TypeError")}

\* What the try block may throw for parameters p: it calls the service only
\* when it queries.
MayThrow(p) ==
    IF (p.startDate # Undefined /\ p.endDate # Undefined) \/ p.date # Undefined
    THEN Thrown
    ELSE {Undefined}

EffectOutcome_noCatchReset(p, thrown) ==
    IF thrown = Undefined
    THEN [appointments |-> Populate(FetchData(p)), loading |-> FALSE,
          error |-> Null]
    ELSE [appointments |-> appointments, loading |-> FALSE, error |-> thrown[1]]

\* The state the effect body leaves: setLoading(true), setError(null), then the
\* try block (query and populate), the catch block when a call threw, and
\* setLoading(false) of the finally block; React commits the last value set.
EffectOutcome(p, thrown) ==
    IF thrown = Undefined
    THEN [appointments |-> Populate(FetchData(p)), loading |-> FALSE,
          error |-> Null]
    ELSE [appointments |-> <<>>, loading |-> FALSE, error |-> thrown[1]]

\* The fetch effect of useAppointments, run after a render whose dependencies
\* differ from those of its last run.
FetchEffect ==
    /\ EffectPending
    /\ \E thrown \in MayThrow(HookParams) :
        LET out == EffectOutcome(HookParams, thrown)
        IN  /\ appointments' = out.appointments
            /\ loading' = out.loading
            /\ error' = out.error
    /\ deps' = DepsOf(HookParams)
    /\ UNCHANGED <<tz, serviceVars, viewVars, pageVars>>

onDoctorChange ==
    /\ ~EffectPending
    /\ \E id \in SelectableDoctors : selectedDoctorId' = id
    /\ UNCHANGED <<tz, serviceVars, viewVars, selectedDate, view, hookVars>>

onDateChange ==
    /\ ~EffectPending
    /\ \E d \in PageDates : selectedDate' = d
    /\ UNCHANGED <<tz, serviceVars, viewVars, selectedDoctorId, view, hookVars>>

onViewChange ==
    /\ ~EffectPending
    /\ \E v \in {"day", "week"} : view' = v
    /\ UNCHANGED <<tz, serviceVars, viewVars, selectedDoctorId, selectedDate, hookVars>>

Next == FetchEffect \/ onDoctorChange \/ onDateChange \/ onViewChange

Spec == Init /\ [][Next]_vars

----------------------------------------------------------------------------
(* Page claims (checked under Spec).                                       *)

\* Monday (day index) of the week of the selected date.
SelectedMonday == 7 * (DayOf(selectedDate) \div 7)

Resolves(a) == a.doctorId \in MOCK_DOCTORS /\ a.patientId \in MOCK_PATIENTS

Ids(list) == { list[i].id : i \in 1..Len(list) }

\* C5: in the week view the fetched appointments are the selected doctor's
\* appointments (with resolving references) of the seven calendar days Monday ..
\* Sunday of the selected week, none of them from the following Monday, also in
\* a week with a day that is not 24 hours long.
C5_WeekRange ==
    (view = "week" /\ ~EffectPending /\ error = Null) =>
        Ids(appointments) =
            { a.id : a \in { b \in Range(MOCK_APPOINTMENTS) :
                /\ b.doctorId = selectedDoctorId
                /\ Resolves(b)
                /\ DayOf(b.startTime) >= SelectedMonday
                /\ DayOf(b.startTime) <= SelectedMonday + 6 } }

\* The fields of a base appointment.
AppointmentFields == {"id", "doctorId", "patientId", "startTime", "endTime", "status"}

\* p is appointment a with every field unchanged plus its doctor and patient.
PopulatedFrom(p, a) ==
    /\ DOMAIN p = AppointmentFields \cup {"doctor", "patient"}
    /\ \A f \in AppointmentFields : p[f] = a[f]
    /\ p.doctor.id = a.doctorId /\ p.doctor.id \in MOCK_DOCTORS
    /\ p.patient.id = a.patientId /\ p.patient.id \in MOCK_PATIENTS

\* C20: getPopulatedAppointment returns null exactly when the appointment's
\* doctorId or patientId does not resolve, and otherwise the appointment with
\* every field unchanged plus the resolved doctor and patient; the list the hook
\* exposes holds only such records, each of a stored appointment.
C20_Enrichment ==
    /\ \A a \in Range(MOCK_APPOINTMENTS) :
        LET p == getPopulatedAppointment(a)
        IN  /\ (p = Undefined) <=> ~Resolves(a)
            /\ Resolves(a) => PopulatedFrom(p[1], a)
    /\ \A i \in 1..Len(appointments) :
        \E a \in Range(MOCK_APPOINTMENTS) :
            Resolves(a) /\ PopulatedFrom(appointments[i], a)

\* The effect fetched the selected doctor's week: the appointment whose patient
\* does not resolve is left out, the other one is exposed.
C20_Witness ==
    /\ view = "week" /\ ~EffectPending /\ error = Null
    /\ Len(appointments) = 1
    /\ \E a \in Range(MOCK_APPOINTMENTS) :
        /\ a.doctorId = selectedDoctorId
        /\ ~Resolves(a)
        /\ DayOf(a.startTime) \in SelectedMonday..(SelectedMonday + 6)

\* C23: every run of the fetch effect leaves loading false, and either error
\* null and the appointment list the populated query result, or (a call threw)
\* error the thrown value and the appointment list empty; loading is true only
\* from the mount until the first run of the effect.
C23_EffectOutcome ==
    /\ [](loading <=> deps = <<>>)
    /\ [][FetchEffect =>
            /\ loading' = FALSE
            /\ \/ error' = Null /\ appointments' = Populate(FetchData(HookParams))
               \/ error' = "TypeError" /\ appointments' = <<>>]_vars

\* A run of the effect threw for parameters whose query result is not empty: the
\* list is empty and the error is set.
C23_Witness ==
    /\ ~EffectPending
    /\ error = "TypeError"
    /\ appointments = <<>>
    /\ loading = FALSE
    /\ Populate(FetchData(HookParams)) # <<>>

\* C26: in every render of ScheduleView with loading false and error null, the
\* appointments handed to the view are the query result for the doctor, date
\* and view of that render: no render pairs new parameters with the list that
\* was fetched for the previous ones.
C26_NoStaleRender ==
    (loading = FALSE /\ error = Null) =>
        appointments = Populate(FetchData(HookParams))

----------------------------------------------------------------------------
(* useAppointments called by any component, with any parameters.           *)

\* The store: doc-1 and doc-2 on Wednesday 10-23 at 9:00, doc-1 on Thursday
\* 10-24 and on Monday 10-21, and a doc-1 appointment on Wednesday whose patient
\* does not resolve.
HookStore ==
    << Appointment(1, "doc-1", "pat-1", LocalInstant(9, 540), LocalInstant(9, 570),
                   "scheduled"),
       Appointment(2, "doc-2", "pat-1", LocalInstant(9, 540), LocalInstant(9, 570),
                   "scheduled"),
       Appointment(3, "doc-1", "pat-1", LocalInstant(10, 600),
                   LocalInstant(10, 630), "scheduled"),
       Appointment(4, "doc-1", "pat-1", LocalInstant(7, 540), LocalInstant(7, 570),
                   "scheduled"),
       Appointment(5, "doc-1", "pat-9", LocalInstant(9, 600), LocalInstant(9, 630),
                   "scheduled") >>

\* The parameter objects of a render: each of date, startDate and endDate is
\* left out or supplied (two of the dates are different instants of one day).
UseAppointmentsParams ==
    [doctorId : MOCK_DOCTORS,
     date : {Undefined, Some(LocalInstant(9, 8 * 60)),
             Some(LocalInstant(9, 14 * 60 + 20)), Some(LocalInstant(10, 0))},
     startDate : {Undefined, Some(LocalInstant(7, 0)), Some(LocalInstant(7, 600)),
                  Some(LocalInstant(9, 0))},
     endDate : {Undefined, Some(LocalInstant(10, 0)), Some(LocalInstant(14, 0))}]

\* The component is mounted: the first render has run, the effect has not.
HookInit ==
    /\ tz \in TimeZones
    /\ MOCK_APPOINTMENTS = HookStore
    /\ \E p \in UseAppointmentsParams :
        call = [op |-> "useAppointments", params |-> p]
    /\ result = <<>>
    /\ appointments = <<>>
    /\ loading = TRUE
    /\ error = Null
    /\ deps = <<>>
    /\ ViewIdle /\ PageIdle

HookEffectPending == deps # DepsOf(call.params)

\* The effect, run after a render whose dependency array differs from that of
\* the effect's last run; result keeps the parameters this run has used.
HookEffect ==
    /\ HookEffectPending
    /\ \E thrown \in MayThrow(call.params) :
        LET out == EffectOutcome(call.params, thrown)
        IN  /\ appointments' = out.appointments
            /\ loading' = out.loading
            /\ error' = out.error
    /\ deps' = DepsOf(call.params)
    /\ result' = <<call.params>>
    /\ UNCHANGED <<tz, MOCK_APPOINTMENTS, call, viewVars, pageVars>>

\* The component renders again, with a new parameter object.
HookRender ==
    /\ ~HookEffectPending
    /\ \E p \in UseAppointmentsParams :
        call' = [op |-> "useAppointments", params |-> p]
    /\ UNCHANGED <<tz, MOCK_APPOINTMENTS, result, viewVars, pageVars, hookVars>>

HookNext == HookEffect \/ HookRender

SpecHook == HookInit /\ [][HookNext]_vars

----------------------------------------------------------------------------
(* Hook claims (checked under SpecHook).                                   *)

Supplied(x) == x # Undefined

\* The appointments of the store the enrichment keeps, of a doctor, that start
\* on a calendar day from..to.
StoredOnDays(doctorId, from, to) ==
    SelectSeq(MOCK_APPOINTMENTS,
              LAMBDA a : /\ a.doctorId = doctorId
                         /\ Resolves(a)
                         /\ DayOf(a.startTime) \in from..to)

\* The base appointments of the hook's list.
Bases(list) ==
    [i \in 1..Len(list) |->
        [f \in AppointmentFields |-> list[i][f]]]

\* C24: the hook selects the query by its parameters: the range query when
\* startDate and endDate are both supplied, also when date is supplied as well;
\* otherwise the single-day query when date is supplied; otherwise no query:
\* the list is empty and there is no error.
C24_QuerySelection ==
    LET p == call.params
    IN  /\ (~HookEffectPending /\ error = Null) =>
            Bases(appointments) =
                IF Supplied(p.startDate) /\ Supplied(p.endDate)
                THEN StoredOnDays(p.doctorId, DayOf(p.startDate[1]),
                                  DayOf(p.endDate[1]) - 1)
                ELSE IF Supplied(p.date)
                     THEN StoredOnDays(p.doctorId, DayOf(p.date[1]),
                                       DayOf(p.date[1]))
                     ELSE <<>>
        /\ (/\ ~HookEffectPending
             /\ ~(Supplied(p.startDate) /\ Supplied(p.endDate))
             /\ ~Supplied(p.date)) =>
                appointments = <<>> /\ error = Null

\* All three dates were supplied and the effect ran the range query: the list
\* holds an appointment that does not start on the day of date.
C24_Witness ==
    LET p == call.params
    IN  /\ ~HookEffectPending /\ error = Null
        /\ Supplied(p.date) /\ Supplied(p.startDate) /\ Supplied(p.endDate)
        /\ \E i \in 1..Len(appointments) :
            DayOf(appointments[i].startTime) # DayOf(p.date[1])

\* The calendar day of an optional date, or its absence.
DayKey(x) == IF Supplied(x) THEN Some(DayOf(x[1])) ELSE Undefined

\* The doctor, or the calendar day of date, startDate or endDate, differs.
KeyChanged(p, q) ==
    \/ p.doctorId # q.doctorId
    \/ DayKey(p.date) # DayKey(q.date)
    \/ DayKey(p.startDate) # DayKey(q.startDate)
    \/ DayKey(p.endDate) # DayKey(q.endDate)

\* The list the hook is to expose for parameters p.
ExpectedFor(p) ==
    IF Supplied(p.startDate) /\ Supplied(p.endDate)
    THEN StoredOnDays(p.doctorId, DayOf(p.startDate[1]), DayOf(p.endDate[1]) - 1)
    ELSE IF Supplied(p.date)
         THEN StoredOnDays(p.doctorId, DayOf(p.date[1]), DayOf(p.date[1]))
         ELSE <<>>

\* C25: a render makes the fetch effect run again exactly when the doctor or
\* the calendar day of date, startDate or endDate differs from the previous
\* render's: new Date objects of the same days do not, any change of the doctor
\* or of one of the days does; and after a run that did not throw the list is
\* the query result for the current parameters.
C25_RerunOnKeyChange ==
    /\ [][HookRender =>
            (HookEffectPending' <=> KeyChanged(call.params, call'.params))]_vars
    /\ [][HookEffect =>
            (error' = Null => Bases(appointments') = ExpectedFor(call.params))]_vars

\* The component rendered again with Date objects other than those the last run
\* of the effect has used, on the same calendar days: no run is due, and the
\* list is not empty.
C25_Witness ==
    /\ ~HookEffectPending
    /\ error = Null
    /\ result # <<>>
    /\ result[1].date # call.params.date
    /\ result[1].startDate # call.params.startDate
    /\ appointments # <<>>

----------------------------------------------------------------------------
(* The date input of ScheduleView.                                         *)

\* Time zones with their offset from UTC in minutes before the clock change
\* (local time = UTC + utcOffset): UTC, UTC+5:30 and UTC-5:00, each without a
\* clock change and with the clocks set back or forward on 10-27.
PickerTimeZones ==
    { [shift |-> z.shift, day |-> z.day, utcOffset |-> o]
      : z \in TimeZones, o \in {0, 330, 0 - 300} }

\* Index of the calendar day a yyyy-MM-dd value names (day 0 is 2024-10-14).
DayIndex(value) ==
    IF value[2] = 10 THEN value[3] - 14
    ELSE IF value[2] = 11 THEN value[3] + 17 ELSE value[3] + 47

\* format(date, 'yyyy-MM-dd'): year, month (1..12) and day of the month of the
\* local calendar day.
format_yyyyMMdd(d) == <<getFullYear(d), getMonth(d) + 1, getDate(d)>>

\* new Date("yyyy-MM-dd"): a date-only string is midnight UTC of that day.
NewDateISO(value) == DayIndex(value) * DayMinutes + tz.utcOffset

\* The values the input delivers when the user picks a day: 10-23, 10-27, 10-28
\* and 11-01.
DateInputValues ==
    { <<2024, 10, 23>>, <<2024, 10, 27>>, <<2024, 10, 28>>, <<2024, 11, 1>> }

\* The store: doc-1 at 9:00 on 10-22, 10-23, 10-26, 10-27, 10-28, 10-31 and
\* 11-01, doc-2 at 9:00 on 10-23.
PickerStore ==
    << Appointment(1, "doc-1", "pat-1", LocalInstant(8, 540), LocalInstant(8, 570),
                   "scheduled"),
       Appointment(2, "doc-1", "pat-1", LocalInstant(9, 540), LocalInstant(9, 570),
                   "scheduled"),
       Appointment(3, "doc-2", "pat-1", LocalInstant(9, 540), LocalInstant(9, 570),
                   "scheduled"),
       Appointment(4, "doc-1", "pat-1", LocalInstant(12, 540),
                   LocalInstant(12, 570), "scheduled"),
       Appointment(5, "doc-1", "pat-1", LocalInstant(13, 540),
                   LocalInstant(13, 570), "scheduled"),
       Appointment(6, "doc-1", "pat-1", LocalInstant(14, 540),
                   LocalInstant(14, 570), "scheduled"),
       Appointment(7, "doc-1", "pat-1", LocalInstant(17, 540),
                   LocalInstant(17, 570), "scheduled"),
       Appointment(8, "doc-1", "pat-1", LocalInstant(18, 540),
                   LocalInstant(18, 570), "scheduled") >>

\* SchedulePage mounted in a time zone with an offset from UTC.
PickerInit ==
    /\ tz \in PickerTimeZones
    /\ MOCK_APPOINTMENTS = PickerStore
    /\ selectedDoctorId = "doc-1"
    /\ selectedDate \in PageDates
    /\ view = "day"
    /\ appointments = <<>>
    /\ loading = TRUE
    /\ error = Null
    /\ deps = <<>>
    /\ call = NoCall /\ result = <<>>
    /\ ViewIdle

\* onChange of the date input: onDateChange(new Date(e.target.value)); call
\* keeps the value the input delivered.
DateInputOnChange ==
    /\ ~EffectPending
    /\ \E value \in DateInputValues :
        /\ selectedDate' = NewDateISO(value)
        /\ call' = [op |-> "dateInput", value |-> value]
    /\ UNCHANGED <<tz, MOCK_APPOINTMENTS, result, viewVars, selectedDoctorId, view,
                   hookVars>>

PickerNext == FetchEffect \/ onDoctorChange \/ DateInputOnChange \/ onViewChange

SpecPicker == PickerInit /\ [][PickerNext]_vars

----------------------------------------------------------------------------
(* Date input claim (checked under SpecPicker).                            *)

\* C30: the date picker round-trips.  Choosing calendar day D in the date input
\* sets selectedDate to a date whose local calendar day is D, for every timezone
\* offset (positive or negative), so the input then displays D again and the day
\* filter queries day D.
C30_PickerRoundTrip ==
    call.op = "dateInput" =>
        /\ DayOf(selectedDate) = DayIndex(call.value)
        /\ format_yyyyMMdd(selectedDate) = call.value
        /\ (view = "day" /\ ~EffectPending /\ error = Null) =>
            appointments = Populate(OfDoctorOnDays(selectedDoctorId,
                                                   DayIndex(call.value),
                                                   DayIndex(call.value) + 1))

====
